---- MODULE Spec2Model ----
(***************************************************************************)
(* Model of the DAG ledger of blockchain_dag.py: the Node record, the DAG  *)
(* store (nodes, tips, the JSON snapshot), admission (add_node and its     *)
(* validation), the ownership projection and the helper API                *)
(* (register_asset, transfer_asset, stake_asset).                          *)
(***************************************************************************)
EXTENDS Integers, Sequences, FiniteSets, TLC

VARIABLES
    nodes,      \* DAG.nodes: the dict node_id -> Node, as the sequence of its values in insertion order
    tips,       \* DAG.tips: set of node ids
    disk,       \* the file at DAG.storage_path: the last snapshot written by save()
    clock,      \* the last value time.time() returned to a helper (it never goes back)
    last,       \* the last call made on the store and what it returned
    firstReg,   \* history: per asset, the fate of the first register candidate submitted for it
                \* (kept only by AddNodeCallTracked)
    cand,       \* history: the Node object the last logged call was handed
                \* (kept only by the actions that say so)
    inflight,   \* per request thread of the server: where it is in add_node, and with which node
    inlock      \* the DAG of inlock_blockchain.py and what its last call returned
                \* (used only by the actions named inlock_...)

vars == <<nodes, tips, disk, clock, last, firstReg, cand, inflight, inlock>>

-----------------------------------------------------------------------------
(* Bounds of the model *)

\* add_node is called while the store holds fewer than MaxNodes nodes
MaxNodes == 3
\* the same, where the history of first register candidates is kept
MaxTrackedNodes == 2
\* the same, where the Node object handed to add_node is kept
MaxLoggedNodes == 2
\* the same, where callers also pass action strings the store does not know
MaxOpenNodes == 2

\* request threads take new helper calls while fewer than MaxThreadNodes nodes are
\* stored or on their way
MaxThreadNodes == 2

\* the same, for the callers whose stores the queries are run on
MaxQueryNodes == 3

\* the helper API is called while the store holds fewer than MaxApiNodes nodes
MaxApiNodes == 3
\* the same, on a store whose file can be edited from outside
MaxCorruptNodes == 2

\* both DAG classes are fed candidates while the first holds fewer than MaxTwinNodes nodes
MaxTwinNodes == 3

\* the servers take scans and helper calls while the store holds fewer than MaxNfcNodes nodes
MaxNfcNodes == 3

Users == {"U1", "U2"}
Assets == {"A1", "A2"}
Actions == {"register", "transfer", "staking"}
UnknownActions == {"burn"}

Amounts == {-1, 5}
Signatures == {"sig"}
Threads == {1, 2}
NodeIdArgs == {1, 2}
SignatureArgs == {"sig", "sig2"}

Timestamps == {1, 2}

\* Python's None
NoVal == "None"

-----------------------------------------------------------------------------
(* Sequence and set helpers *)

Range(s) == {s[i] : i \in DOMAIN s}

\* every listing of the finite set S as a sequence without repetition
Orderings(S) ==
    {s \in [1..Cardinality(S) -> S] : \A i, j \in 1..Cardinality(S) : s[i] = s[j] => i = j}

\* ':'.join / iteration over a list keep the order of the list
RECURSIVE SelectSeqBy(_, _, _)
SelectSeqBy(s, a, i) ==
    IF i > Len(s) THEN <<>>
    ELSE IF s[i].asset_id = a THEN <<s[i]>> \o SelectSeqBy(s, a, i + 1)
    ELSE SelectSeqBy(s, a, i + 1)

-----------------------------------------------------------------------------
(* Node *)

\* the data dict: a function from the keys present to their values
EmptyData == [k \in {} |-> NoVal]
RecipientData(u) == [k \in {"recipient_id"} |-> u]
StakingData(k) == [x \in {"staking_amount"} |-> k]

\* Node._calculate_hash: SHA-256 of the string
\* asset_id:action:user_id:timestamp:refs joined by ':':signature:json(data, sorted keys);
\* the digest is modelled by the content it is computed over (no collisions).
\* node_id is not part of the content.
CalculateHash(n) ==
    <<n.asset_id, n.action, n.user_id, n.timestamp, n.references, n.signature, n.data>>

\* mutant: the hash is computed before the timestamp is set (over a timestamp of 0)
Node_HashBeforeTimestamp(node_id, asset_id, action, user_id, timestamp, references, signature, data) ==
    LET fields == [node_id |-> node_id, asset_id |-> asset_id, action |-> action,
                   user_id |-> user_id, timestamp |-> 0,
                   references |-> references, signature |-> signature, data |-> data]
    IN  [node_id |-> node_id, asset_id |-> asset_id, action |-> action,
         user_id |-> user_id, timestamp |-> timestamp, references |-> references,
         signature |-> signature, data |-> data, hash |-> CalculateHash(fields)]

\* Node.__init__ with every argument supplied: the hash is computed last
Node(node_id, asset_id, action, user_id, timestamp, references, signature, data) ==
    LET fields == [node_id |-> node_id, asset_id |-> asset_id, action |-> action,
                   user_id |-> user_id, timestamp |-> timestamp,
                   references |-> references, signature |-> signature, data |-> data]
    IN  [node_id |-> node_id, asset_id |-> asset_id, action |-> action,
         user_id |-> user_id, timestamp |-> timestamp, references |-> references,
         signature |-> signature, data |-> data, hash |-> CalculateHash(fields)]

\* Node.to_dict: the nine fields, hash included
to_dict(n) ==
    [node_id |-> n.node_id, asset_id |-> n.asset_id, action |-> n.action,
     user_id |-> n.user_id, timestamp |-> n.timestamp, references |-> n.references,
     signature |-> n.signature, hash |-> n.hash, data |-> n.data]

\* mutant: the hash written in the record is kept instead of being recomputed
from_dict_KeepStoredHash(d) ==
    [Node(d.node_id, d.asset_id, d.action, d.user_id, d.timestamp, d.references,
          d.signature, d.data) EXCEPT !.hash = d.hash]

\* mutant: the stored signature is not handed to the constructor, which makes a new one
from_dict_NewSignature(d) ==
    Node(d.node_id, d.asset_id, d.action, d.user_id, d.timestamp, d.references,
         "regenerated", d.data)

\* Node.from_dict: the constructor is called without the stored hash, which it recomputes
from_dict(d) ==
    Node(d.node_id, d.asset_id, d.action, d.user_id, d.timestamp, d.references,
         d.signature, d.data)

\* no Node object has been handed over yet
NoCandidate == Node(0, NoVal, NoVal, NoVal, 0, <<>>, NoVal, EmptyData)

\* a request thread that is not inside a helper call
Idle == [pc |-> "idle", op |-> NoVal, node |-> NoCandidate]

-----------------------------------------------------------------------------
(* DAG: queries *)

\* node_id in self.nodes
HasNode(ns, id) == \E i \in DOMAIN ns : ns[i].node_id = id

KeysOf(ns) == {ns[i].node_id : i \in DOMAIN ns}

\* DAG.get_asset_nodes: the nodes of the asset, in the iteration order of the dict
get_asset_nodes(ns, a) == SelectSeqBy(ns, a, 1)

\* list.sort(key=timestamp): a stable sort, by insertion of each element after
\* the last element whose key is not greater
\* mutant: an element goes before the elements with the same key
RECURSIVE InsertByTimestamp_TiesReversed(_, _)
InsertByTimestamp_TiesReversed(sorted, n) ==
    IF sorted = <<>> THEN <<n>>
    ELSE IF sorted[Len(sorted)].timestamp < n.timestamp THEN Append(sorted, n)
    ELSE Append(InsertByTimestamp_TiesReversed(SubSeq(sorted, 1, Len(sorted) - 1), n),
                sorted[Len(sorted)])

RECURSIVE InsertByTimestamp(_, _)
InsertByTimestamp(sorted, n) ==
    IF sorted = <<>> THEN <<n>>
    ELSE IF sorted[Len(sorted)].timestamp <= n.timestamp THEN Append(sorted, n)
    ELSE Append(InsertByTimestamp(SubSeq(sorted, 1, Len(sorted) - 1), n), sorted[Len(sorted)])

RECURSIVE SortByTimestampFrom(_, _, _)
SortByTimestampFrom(s, i, acc) ==
    IF i > Len(s) THEN acc
    ELSE SortByTimestampFrom(s, i + 1, InsertByTimestamp(acc, s[i]))

SortByTimestamp(s) == SortByTimestampFrom(s, 1, <<>>)

\* the replay loop of get_asset_ownership_history over the sorted nodes
RECURSIVE Replay(_, _)
Replay(s, i) ==
    IF i > Len(s) THEN <<>>
    ELSE IF s[i].action = "register"
         THEN <<[user_id |-> s[i].user_id, timestamp |-> s[i].timestamp,
                 node_id |-> s[i].node_id, action |-> "register"]>> \o Replay(s, i + 1)
    ELSE IF s[i].action = "transfer" /\ "recipient_id" \in DOMAIN s[i].data
         THEN <<[user_id |-> s[i].data["recipient_id"], timestamp |-> s[i].timestamp,
                 node_id |-> s[i].node_id, action |-> "transfer"]>> \o Replay(s, i + 1)
    ELSE Replay(s, i + 1)

\* DAG.get_asset_ownership_history
get_asset_ownership_history(ns, a) ==
    LET asset_nodes == get_asset_nodes(ns, a)
    IN  IF asset_nodes = <<>> THEN <<>> ELSE Replay(SortByTimestamp(asset_nodes), 1)

\* mutant: the first entry of the history is taken for the current owner
CurrentOwner_FirstEntry(ns, a) ==
    LET h == get_asset_ownership_history(ns, a)
    IN  IF h = <<>> THEN NoVal ELSE h[1].user_id

\* owner_history[-1]["user_id"], or None for an empty history
CurrentOwner(ns, a) ==
    LET h == get_asset_ownership_history(ns, a)
    IN  IF h = <<>> THEN NoVal ELSE h[Len(h)].user_id

\* mutant: the last owner is not compared with the user
get_user_assets_NoOwnerFilter(ns, u) ==
    LET all_assets == {ns[i].asset_id : i \in DOMAIN ns}
    IN  {a \in all_assets : get_asset_ownership_history(ns, a) # <<>>}

\* mutant: an asset counts for every user its history names, not only the last one
get_user_assets_EverOwned(ns, u) ==
    LET all_assets == {ns[i].asset_id : i \in DOMAIN ns}
    IN  {a \in all_assets :
            \E k \in DOMAIN get_asset_ownership_history(ns, a) :
                get_asset_ownership_history(ns, a)[k].user_id = u}

\* DAG.get_user_assets
get_user_assets(ns, u) ==
    LET all_assets == {ns[i].asset_id : i \in DOMAIN ns}
    IN  {a \in all_assets : CurrentOwner(ns, a) = u}

\* mutant: every staking node counts 1, whatever its staking_amount
RECURSIVE StakingSum_IgnoreAmount(_, _, _)
StakingSum_IgnoreAmount(ns, u, i) ==
    IF i > Len(ns) THEN 0
    ELSE (IF ns[i].action = "staking" /\ ns[i].user_id = u THEN 1 ELSE 0)
         + StakingSum_IgnoreAmount(ns, u, i + 1)

\* mutant: only the stakes on assets the user still owns are counted
RECURSIVE StakingSum_OwnedOnly(_, _, _)
StakingSum_OwnedOnly(ns, u, i) ==
    IF i > Len(ns) THEN 0
    ELSE (IF ns[i].action = "staking" /\ ns[i].user_id = u /\ CurrentOwner(ns, ns[i].asset_id) = u
          THEN (IF "staking_amount" \in DOMAIN ns[i].data THEN ns[i].data["staking_amount"] ELSE 1)
          ELSE 0) + StakingSum_OwnedOnly(ns, u, i + 1)

\* DAG.get_user_staking_balance: data.get("staking_amount", 1) summed over the user's staking nodes
RECURSIVE StakingSum(_, _, _)
StakingSum(ns, u, i) ==
    IF i > Len(ns) THEN 0
    ELSE (IF ns[i].action = "staking" /\ ns[i].user_id = u
          THEN (IF "staking_amount" \in DOMAIN ns[i].data THEN ns[i].data["staking_amount"] ELSE 1)
          ELSE 0) + StakingSum(ns, u, i + 1)

get_user_staking_balance(ns, u) == StakingSum(ns, u, 1)

\* verify_asset_ownership: `history and history[-1]["user_id"] == user_id`, which is
\* the empty list itself when the history is empty; the Python value returned is
\* written as its repr
verify_asset_ownership(ns, a, u) ==
    LET h == get_asset_ownership_history(ns, a)
    IN  IF h = <<>> THEN "[]"
        ELSE IF h[Len(h)].user_id = u THEN "True" ELSE "False"

-----------------------------------------------------------------------------
(* DAG: validation *)

\* the first reference of refs, from position i on, that is not a key of ns; 0 if none
RECURSIVE FirstMissingRef(_, _, _)
FirstMissingRef(ns, refs, i) ==
    IF i > Len(refs) THEN 0
    ELSE IF ~HasNode(ns, refs[i]) THEN refs[i]
    ELSE FirstMissingRef(ns, refs, i + 1)

\* some stored node is a register node of the asset
HasRegister(ns, a) ==
    \E i \in DOMAIN ns : ns[i].asset_id = a /\ ns[i].action = "register"

\* mutant: a register node is not checked against the stored register nodes
ValidateAction_NoRegisterCheck(ns, n) ==
    IF n.action = "register" THEN <<"Node is valid">>
    ELSE IF n.action = "transfer" THEN
        IF get_asset_ownership_history(ns, n.asset_id) = <<>>
        THEN <<"Asset is not registered", n.asset_id>>
        ELSE IF CurrentOwner(ns, n.asset_id) # n.user_id
        THEN <<"Transfer requested by, but asset is owned by", n.user_id, CurrentOwner(ns, n.asset_id)>>
        ELSE IF "recipient_id" \notin DOMAIN n.data
        THEN <<"Transfer must include a recipient_id in the data">>
        ELSE <<"Node is valid">>
    ELSE IF n.action = "staking" THEN
        IF get_asset_ownership_history(ns, n.asset_id) = <<>>
        THEN <<"Asset is not registered", n.asset_id>>
        ELSE IF CurrentOwner(ns, n.asset_id) # n.user_id
        THEN <<"Staking requested by, but asset is owned by", n.user_id, CurrentOwner(ns, n.asset_id)>>
        ELSE <<"Node is valid">>
    ELSE <<"Node is valid">>

\* mutant: a transfer or staking node is not checked against the current owner
ValidateAction_NoOwnerCheck(ns, n) ==
    IF n.action = "register" THEN
        IF HasRegister(ns, n.asset_id)
        THEN <<"Asset is already registered", n.asset_id>>
        ELSE <<"Node is valid">>
    ELSE IF n.action = "transfer" THEN
        IF get_asset_ownership_history(ns, n.asset_id) = <<>>
        THEN <<"Asset is not registered", n.asset_id>>
        ELSE IF "recipient_id" \notin DOMAIN n.data
        THEN <<"Transfer must include a recipient_id in the data">>
        ELSE <<"Node is valid">>
    ELSE IF n.action = "staking" THEN
        IF get_asset_ownership_history(ns, n.asset_id) = <<>>
        THEN <<"Asset is not registered", n.asset_id>>
        ELSE <<"Node is valid">>
    ELSE <<"Node is valid">>

\* the action-specific part of DAG._validate_node
ValidateAction(ns, n) ==
    IF n.action = "register" THEN
        IF HasRegister(ns, n.asset_id)
        THEN <<"Asset is already registered", n.asset_id>>
        ELSE <<"Node is valid">>
    ELSE IF n.action = "transfer" THEN
        IF get_asset_ownership_history(ns, n.asset_id) = <<>>
        THEN <<"Asset is not registered", n.asset_id>>
        ELSE IF CurrentOwner(ns, n.asset_id) # n.user_id
        THEN <<"Transfer requested by, but asset is owned by", n.user_id, CurrentOwner(ns, n.asset_id)>>
        ELSE IF "recipient_id" \notin DOMAIN n.data
        THEN <<"Transfer must include a recipient_id in the data">>
        ELSE <<"Node is valid">>
    ELSE IF n.action = "staking" THEN
        IF get_asset_ownership_history(ns, n.asset_id) = <<>>
        THEN <<"Asset is not registered", n.asset_id>>
        ELSE IF CurrentOwner(ns, n.asset_id) # n.user_id
        THEN <<"Staking requested by, but asset is owned by", n.user_id, CurrentOwner(ns, n.asset_id)>>
        ELSE <<"Node is valid">>
    ELSE <<"Node is valid">>

\* a message of _validate_node that admits the node
IsValid(msg) == msg[1] = "Node is valid"

\* mutant: the id of the candidate is not checked against the stored ids
ValidateNode_NoDuplicateCheck(ns, n) ==
    IF FirstMissingRef(ns, n.references, 1) # 0
    THEN <<"Referenced node does not exist", FirstMissingRef(ns, n.references, 1)>>
    ELSE IF Len(n.references) > 2
    THEN <<"A node cannot have more than 2 references">>
    ELSE ValidateAction(ns, n)

\* mutant: the action-specific rules are skipped
ValidateNode_NoActionRules(ns, n) ==
    IF HasNode(ns, n.node_id)
    THEN <<"Node with ID already exists", n.node_id>>
    ELSE IF FirstMissingRef(ns, n.references, 1) # 0
    THEN <<"Referenced node does not exist", FirstMissingRef(ns, n.references, 1)>>
    ELSE IF Len(n.references) > 2
    THEN <<"A node cannot have more than 2 references">>
    ELSE <<"Node is valid">>

\* mutant: references are not looked up in the store
ValidateNode_NoReferenceCheck(ns, n) ==
    IF HasNode(ns, n.node_id)
    THEN <<"Node with ID already exists", n.node_id>>
    ELSE IF Len(n.references) > 2
    THEN <<"A node cannot have more than 2 references">>
    ELSE ValidateAction(ns, n)

\* mutant: the duplicate id is looked for after the other checks
ValidateNode_DuplicateCheckLast(ns, n) ==
    IF FirstMissingRef(ns, n.references, 1) # 0
    THEN <<"Referenced node does not exist", FirstMissingRef(ns, n.references, 1)>>
    ELSE IF Len(n.references) > 2
    THEN <<"A node cannot have more than 2 references">>
    ELSE IF ~IsValid(ValidateAction(ns, n))
    THEN ValidateAction(ns, n)
    ELSE IF HasNode(ns, n.node_id)
    THEN <<"Node with ID already exists", n.node_id>>
    ELSE <<"Node is valid">>

\* mutant: the references are counted before they are looked up
ValidateNode_CountBeforeLookup(ns, n) ==
    IF HasNode(ns, n.node_id)
    THEN <<"Node with ID already exists", n.node_id>>
    ELSE IF Len(n.references) > 2
    THEN <<"A node cannot have more than 2 references">>
    ELSE IF FirstMissingRef(ns, n.references, 1) # 0
    THEN <<"Referenced node does not exist", FirstMissingRef(ns, n.references, 1)>>
    ELSE ValidateAction(ns, n)

\* DAG._validate_node: the message of the first failing check, <<"Node is valid">> if none fails
ValidateNode(ns, n) ==
    IF HasNode(ns, n.node_id)
    THEN <<"Node with ID already exists", n.node_id>>
    ELSE IF FirstMissingRef(ns, n.references, 1) # 0
    THEN <<"Referenced node does not exist", FirstMissingRef(ns, n.references, 1)>>
    ELSE IF Len(n.references) > 2
    THEN <<"A node cannot have more than 2 references">>
    ELSE ValidateAction(ns, n)

-----------------------------------------------------------------------------
(* DAG: integrity *)

\* first pass of DAG.verify_integrity: the first (node, reference) pair, in iteration
\* order, whose reference is not a key of ns; <<>> if every reference resolves
RECURSIVE FirstDangling(_, _)
FirstDangling(ns, i) ==
    IF i > Len(ns) THEN <<>>
    ELSE IF FirstMissingRef(ns, ns[i].references, 1) # 0
    THEN <<ns[i].node_id, FirstMissingRef(ns, ns[i].references, 1)>>
    ELSE FirstDangling(ns, i + 1)

\* second pass of DAG.verify_integrity: the id of the first node, in iteration order,
\* whose stored hash differs from the recomputed one; 0 if none
RECURSIVE FirstHashMismatch(_, _)
FirstHashMismatch(ns, i) ==
    IF i > Len(ns) THEN 0
    ELSE IF ns[i].hash # CalculateHash(ns[i]) THEN ns[i].node_id
    ELSE FirstHashMismatch(ns, i + 1)

\* mutant: only the references are verified
verify_integrity_ReferencesOnly(ns) ==
    IF FirstDangling(ns, 1) # <<>>
    THEN <<FALSE, <<"Node references non-existent node">> \o FirstDangling(ns, 1)>>
    ELSE <<TRUE, <<"DAG integrity verified">>>>

\* mutant: the hashes are verified before the references
verify_integrity_HashPassFirst(ns) ==
    IF FirstHashMismatch(ns, 1) # 0
    THEN <<FALSE, <<"Hash mismatch for node", FirstHashMismatch(ns, 1)>>>>
    ELSE IF FirstDangling(ns, 1) # <<>>
    THEN <<FALSE, <<"Node references non-existent node">> \o FirstDangling(ns, 1)>>
    ELSE <<TRUE, <<"DAG integrity verified">>>>

\* DAG.verify_integrity: <<integrity_ok, message>>
verify_integrity(ns) ==
    IF FirstDangling(ns, 1) # <<>>
    THEN <<FALSE, <<"Node references non-existent node">> \o FirstDangling(ns, 1)>>
    ELSE IF FirstHashMismatch(ns, 1) # 0
    THEN <<FALSE, <<"Hash mismatch for node", FirstHashMismatch(ns, 1)>>>>
    ELSE <<TRUE, <<"DAG integrity verified">>>>

-----------------------------------------------------------------------------
(* DAG: admission and persistence *)

\* self.nodes[node.node_id] = node: a new key is appended to the dict, an existing
\* key keeps its position and gets the new value
DictSet(ns, n) ==
    IF HasNode(ns, n.node_id)
    THEN [i \in DOMAIN ns |-> IF ns[i].node_id = n.node_id THEN n ELSE ns[i]]
    ELSE Append(ns, n)

\* mutant: the references stay in tips
UpdateTips_KeepRefs(tp, n) == tp \cup {n.node_id}

\* mutant: only the first reference is removed from tips
UpdateTips_RemoveFirstRef(tp, n) ==
    (tp \ {n.references[i] : i \in DOMAIN n.references \cap {1}}) \cup {n.node_id}

\* the tips update of DAG.add_node: every reference is removed, the new id is added
UpdateTips(tp, n) == (tp \ Range(n.references)) \cup {n.node_id}

\* the file contents DAG.save writes: every node's to_dict in dict order, and the
\* elements of list(self.tips) (the list's order is the set's iteration order; load
\* reads it back with set(...), so only its elements are kept here)
\* (complete: json.dump wrote the whole document)
Snapshot(ns, tp) ==
    [exists |-> TRUE, complete |-> TRUE,
     nodes |-> [i \in DOMAIN ns |-> to_dict(ns[i])], tips |-> tp]

\* no file at storage_path
NoFile == [exists |-> FALSE, complete |-> FALSE, nodes |-> <<>>, tips |-> {}]

\* what a call returned: the operation, the action, asset and user it was called
\* with, and the (success, message) pair
Returned(op, action, a, u, ok, message) ==
    [op |-> op, action |-> action, asset_id |-> a, user_id |-> u, ok |-> ok, message |-> message]

\* what `op` returns once add_node(n) has returned (ok, message): add_node itself
\* returns the pair; a helper returns (True, node.node_id) or (False, message)
ReturnOf(op, n, ok, message) ==
    IF op = "add_node"
    THEN Returned(op, NoVal, NoVal, NoVal, ok, message)
    ELSE Returned(op, n.action, n.asset_id, n.user_id, ok,
                  IF ok THEN <<"node_id", n.node_id>> ELSE message)

\* mutant: the snapshot is written before the node is validated
AddNode_SaveBeforeValidate(n, op) ==
    LET message == ValidateNode(nodes, n) IN
    IF ~IsValid(message)
    THEN /\ UNCHANGED <<nodes, tips>>
         /\ disk' = Snapshot(nodes, tips)
         /\ last' = ReturnOf(op, n, FALSE, message)
    ELSE /\ nodes' = DictSet(nodes, n)
         /\ tips' = UpdateTips(tips, n)
         /\ disk' = Snapshot(nodes', tips')
         /\ last' = ReturnOf(op, n, TRUE, <<"Node added successfully", n.node_id>>)

\* mutant: the snapshot is written before the tips are updated
AddNode_SaveBeforeTips(n, op) ==
    LET message == ValidateNode(nodes, n) IN
    IF ~IsValid(message)
    THEN /\ UNCHANGED <<nodes, tips, disk>>
         /\ last' = ReturnOf(op, n, FALSE, message)
    ELSE /\ nodes' = DictSet(nodes, n)
         /\ tips' = UpdateTips(tips, n)
         /\ disk' = Snapshot(nodes', tips)
         /\ last' = ReturnOf(op, n, TRUE, <<"Node added successfully", n.node_id>>)

\* DAG.add_node(node), called by `op`
AddNode(n, op) ==
    LET message == ValidateNode(nodes, n) IN
    IF ~IsValid(message)
    THEN /\ UNCHANGED <<nodes, tips, disk>>
         /\ last' = ReturnOf(op, n, FALSE, message)
    ELSE /\ nodes' = DictSet(nodes, n)
         /\ tips' = UpdateTips(tips, n)
         /\ disk' = Snapshot(nodes', tips')
         /\ last' = ReturnOf(op, n, TRUE, <<"Node added successfully", n.node_id>>)

\* str(uuid.uuid4()): an id no stored node has (the ids are handed out in order)
FreshId(ns) == Len(ns) + 1

\* the references a caller of add_node passes: at most 2 distinct ids in ascending
\* order among the stored ids and the unused one, or the first stored id three times
RefChoices(ns) ==
    LET ids == KeysOf(ns) \cup {FreshId(ns)} IN
    {<<>>} \cup {<<i>> : i \in ids}
           \cup {p \in ids \X ids : p[1] < p[2]}
           \cup {<<ns[i].node_id, ns[i].node_id, ns[i].node_id>> : i \in DOMAIN ns \cap {1}}

\* the data a caller of add_node passes with an action
DataChoices(action) ==
    IF action = "transfer" THEN {EmptyData} \cup {RecipientData(u) : u \in Users}
    ELSE IF action = "staking" THEN {EmptyData} \cup {StakingData(k) : k \in Amounts}
    ELSE {EmptyData}

\* the nodes a caller of add_node builds under an id no stored node has
FreshCandidates(ns) ==
    UNION {{Node(FreshId(ns), a, act, u, t, refs, sig, d) :
               a \in Assets, u \in Users, t \in Timestamps,
               refs \in RefChoices(ns), sig \in Signatures, d \in DataChoices(act)} :
           act \in Actions}

\* the nodes a caller of add_node builds under the id of the first stored node
DuplicateCandidates(ns) ==
    {Node(ns[i].node_id, a, act, u, t, <<>>, sig, EmptyData) :
        i \in DOMAIN ns \cap {1}, a \in Assets, act \in Actions, u \in Users,
        t \in Timestamps, sig \in Signatures}

\* the nodes a caller of add_node builds
Candidates(ns) == FreshCandidates(ns) \cup DuplicateCandidates(ns)

\* the nodes a caller of add_node builds with an action string that is none of the
\* three the store knows (action is a plain str argument of Node)
UnknownCandidates(ns) ==
    {Node(FreshId(ns), a, act, u, t, refs, sig, EmptyData) :
        a \in Assets, act \in UnknownActions, u \in Users, t \in Timestamps,
        refs \in RefChoices(ns), sig \in Signatures}

\* a caller builds any Node and submits it: blockchain.add_node(Node(...))
AddNodeCall ==
    /\ Len(nodes) < MaxNodes
    /\ \E n \in Candidates(nodes) : AddNode(n, "add_node")
    /\ UNCHANGED <<clock, firstReg, cand, inflight>>

\* the fate of the first register candidate of each asset, after candidate n got `ok`
NoteFirstReg(n, ok) ==
    IF n.action = "register" /\ firstReg[n.asset_id] = "none"
    THEN [firstReg EXCEPT ![n.asset_id] = IF ok THEN "admitted" ELSE "rejected"]
    ELSE firstReg

\* AddNodeCall, with the history of first register candidates kept
AddNodeCallTracked ==
    /\ Len(nodes) < MaxTrackedNodes
    /\ \E n \in Candidates(nodes) :
          /\ AddNode(n, "add_node")
          /\ firstReg' = NoteFirstReg(n, IsValid(ValidateNode(nodes, n)))
    /\ UNCHANGED <<clock, cand, inflight>>

-----------------------------------------------------------------------------
(* Helper API *)

\* mutant: no tip is referenced
choose_references_NoTips(tp) == {<<>>}

\* mutant: the two tips are drawn with replacement
choose_references_WithReplacement(tp) ==
    IF Cardinality(tp) >= 2
    THEN tp \X tp
    ELSE Orderings(tp)

\* DAG.choose_references: random.sample(tips_list, 2) when there are at least 2 tips,
\* list(self.tips) otherwise; every outcome
choose_references(tp) ==
    IF Cardinality(tp) >= 2
    THEN {p \in tp \X tp : p[1] # p[2]}
    ELSE Orderings(tp)

\* the body shared by register_asset, transfer_asset and stake_asset: choose the
\* references, build the node at the current time, add it, and return
\* (True, node_id) or (False, message)
Helper(op, action, a, u, d) ==
    /\ Len(nodes) < MaxApiNodes
    /\ \E refs \in choose_references(tips), t \in {x \in Timestamps : x >= clock},
          sig \in Signatures :
          /\ clock' = t
          /\ AddNode(Node(FreshId(nodes), a, action, u, t, refs, sig, d), op)
    /\ UNCHANGED <<firstReg, cand, inflight>>

\* register_asset(blockchain, asset_id, user_id, asset_data)
register_asset == \E a \in Assets, u \in Users : Helper("register_asset", "register", a, u, EmptyData)

\* transfer_asset(blockchain, asset_id, from_user_id, to_user_id)
transfer_asset ==
    \E a \in Assets, u \in Users, to \in Users :
        Helper("transfer_asset", "transfer", a, u, RecipientData(to))

\* stake_asset(blockchain, asset_id, user_id, staking_amount)
stake_asset ==
    \E a \in Assets, u \in Users, k \in Amounts :
        Helper("stake_asset", "staking", a, u, StakingData(k))

-----------------------------------------------------------------------------
(* Read-only calls *)

\* mutant: the nodes of the store itself are sorted, not a copy of them
OwnershipHistoryCall_SortsTheStore ==
    \E a \in Assets :
        /\ last' = Returned("get_asset_ownership_history", NoVal, a, NoVal, TRUE,
                            get_asset_ownership_history(nodes, a))
        /\ nodes' = SortByTimestamp(nodes)
        /\ UNCHANGED <<tips, disk, clock, firstReg, cand, inflight>>

\* blockchain.get_asset_ownership_history(asset_id)
OwnershipHistoryCall ==
    \E a \in Assets :
        /\ last' = Returned("get_asset_ownership_history", NoVal, a, NoVal, TRUE,
                            get_asset_ownership_history(nodes, a))
        /\ UNCHANGED <<nodes, tips, disk, clock, firstReg, cand, inflight>>

\* blockchain.get_user_staking_balance(user_id)
StakingBalanceCall ==
    \E u \in Users :
        /\ last' = Returned("get_user_staking_balance", NoVal, NoVal, u, TRUE,
                            <<get_user_staking_balance(nodes, u)>>)
        /\ UNCHANGED <<nodes, tips, disk, clock, firstReg, cand, inflight>>

\* blockchain.verify_integrity()
VerifyIntegrityCall ==
    /\ last' = Returned("verify_integrity", NoVal, NoVal, NoVal,
                        verify_integrity(nodes)[1], verify_integrity(nodes)[2])
    /\ UNCHANGED <<nodes, tips, disk, clock, firstReg, cand, inflight>>

\* nodes a caller of add_node builds that break several rules at once: the id of
\* the first stored node (1) with a reference to no stored node or with three
\* references, and a new id with three references to no stored node
MultiFaultCandidates(ns) ==
    {Node(ns[i].node_id, a, act, u, t, refs, sig, EmptyData) :
        i \in DOMAIN ns \cap {1},
        a \in Assets, act \in Actions, u \in Users, t \in Timestamps,
        refs \in {<<FreshId(ns)>>, <<1, 1, 1>>}, sig \in Signatures}
    \cup {Node(FreshId(ns), a, act, u, t, <<FreshId(ns), FreshId(ns), FreshId(ns)>>, sig, EmptyData) :
             a \in Assets, act \in Actions, u \in Users, t \in Timestamps, sig \in Signatures}

\* AddNodeCall, with the Node object that was handed to add_node kept
AddNodeCallLogged ==
    /\ Len(nodes) < MaxLoggedNodes
    /\ \E n \in Candidates(nodes) \cup MultiFaultCandidates(nodes) :
          /\ AddNode(n, "add_node")
          /\ cand' = n
    /\ UNCHANGED <<clock, firstReg, inflight>>

\* AddNodeCall, where the caller's action string is not always one the store knows
AddNodeCallOpen ==
    /\ Len(nodes) < MaxOpenNodes
    /\ \E n \in Candidates(nodes) \cup UnknownCandidates(nodes) : AddNode(n, "add_node")
    /\ UNCHANGED <<clock, firstReg, cand, inflight>>

\* a digest that is the hash of no content
CorruptHash == <<"corrupt">>

\* the hash attribute of one stored Node object is overwritten in memory
\* (node.hash is a plain attribute; nothing in the store guards it)
TamperHashCall ==
    /\ \E i \in DOMAIN nodes :
          /\ nodes[i].hash # CorruptHash
          /\ nodes' = [nodes EXCEPT ![i].hash = CorruptHash]
          /\ last' = Returned("tamper", NoVal, NoVal, NoVal, TRUE, <<"hash", nodes[i].node_id>>)
    /\ UNCHANGED <<tips, disk, clock, firstReg, cand, inflight>>

\* the Node objects a caller builds, with every argument supplied
BuiltNodes ==
    UNION {{Node(id, a, act, u, t, refs, sig, d) :
               id \in NodeIdArgs, a \in Assets, u \in Users, t \in Timestamps,
               refs \in {<<>>, <<1>>}, sig \in SignatureArgs, d \in DataChoices(act)} :
           act \in Actions}

\* Node objects: as built, or with the hash attribute overwritten afterwards
NodeInputs == BuiltNodes \cup {[n EXCEPT !.hash = CorruptHash] : n \in BuiltNodes}

\* Node.from_dict(node.to_dict()) on the Node object at hand
RoundTripCall ==
    /\ last' = Returned("from_dict(to_dict)", NoVal, NoVal, NoVal, TRUE,
                        <<from_dict(to_dict(cand))>>)
    /\ UNCHANGED <<nodes, tips, disk, clock, firstReg, cand, inflight>>

\* the fields of a node that to_dict writes, the hash apart
PersistedFields ==
    {"node_id", "asset_id", "action", "user_id", "timestamp", "references", "data", "signature"}

\* a second Node is built that differs from the one at hand in one argument, and
\* the hashes the two constructors computed are put side by side
HashPairCall ==
    /\ cand.hash = CalculateHash(cand)
    /\ \E m \in BuiltNodes :
          /\ Cardinality({f \in PersistedFields : m[f] # cand[f]}) = 1
          /\ last' = Returned("_calculate_hash", NoVal, NoVal, NoVal, TRUE, <<m>>)
    /\ UNCHANGED <<nodes, tips, disk, clock, firstReg, cand, inflight>>

\* DAG.load: the nodes of the file, rebuilt by Node.from_dict in the order of the
\* file, and the set of its tips
LoadNodes(file) == [i \in DOMAIN file.nodes |-> from_dict(file.nodes[i])]

LoadTips(file) == file.tips

\* the process ends and a new one calls create_blockchain on the same path: the
\* store is empty when there is no file, else what load reads (json.load raises on
\* a file that is not a whole document, and then no store comes to be)
RestartCall ==
    /\ disk.exists => disk.complete
    /\ nodes' = IF disk.exists THEN LoadNodes(disk) ELSE <<>>
    /\ tips' = IF disk.exists THEN LoadTips(disk) ELSE {}
    /\ last' = Returned("restart", NoVal, NoVal, NoVal, TRUE, <<>>)
    /\ UNCHANGED <<disk, clock, firstReg, cand, inflight>>

\* a file that open(path, "w") has emptied and json.dump has not finished
TruncatedFile == [exists |-> TRUE, complete |-> FALSE, nodes |-> <<>>, tips |-> {}]

\* mutant: the snapshot is written, and fails, before the tips are updated
AddNodeSaveFails_BeforeTips(n, op) ==
    /\ IsValid(ValidateNode(nodes, n))
    /\ nodes' = DictSet(nodes, n)
    /\ tips' = tips
    /\ disk' \in {disk, TruncatedFile}
    /\ last' = Returned(op, n.action, n.asset_id, n.user_id, FALSE,
                        <<"save raised", n.node_id>>)

\* DAG.add_node(node) when save() raises (open fails and the file stays as it was,
\* or the write stops half way): the node passed validation and is already in
\* nodes and tips, and the exception leaves add_node with nothing undone
AddNodeSaveFails(n, op) ==
    /\ IsValid(ValidateNode(nodes, n))
    /\ nodes' = DictSet(nodes, n)
    /\ tips' = UpdateTips(tips, n)
    /\ disk' \in {disk, TruncatedFile}
    /\ last' = Returned(op, n.action, n.asset_id, n.user_id, FALSE,
                        <<"save raised", n.node_id>>)

\* the calls of the helper API: function, action, asset, user, data
HelperCalls ==
    {<<"register_asset", "register", a, u, EmptyData>> : a \in Assets, u \in Users}
    \cup {<<"transfer_asset", "transfer", a, u, RecipientData(to)>> :
              a \in Assets, u \in Users, to \in Users}
    \cup {<<"stake_asset", "staking", a, u, StakingData(k)>> :
              a \in Assets, u \in Users, k \in Amounts}

\* a helper call during which the snapshot cannot be written
HelperSaveFails ==
    /\ Len(nodes) < MaxApiNodes
    /\ \E c \in HelperCalls, refs \in choose_references(tips),
          t \in {x \in Timestamps : x >= clock}, sig \in Signatures :
          /\ clock' = t
          /\ AddNodeSaveFails(Node(FreshId(nodes), c[3], c[2], c[4], t, refs, sig, c[5]), c[1])
    /\ UNCHANGED <<firstReg, cand, inflight>>

\* the ids of the stored nodes and of the nodes the request threads hold
UsedIds ==
    KeysOf(nodes) \cup {inflight[t].node.node_id : t \in {x \in Threads : inflight[x].pc # "idle"}}

\* str(uuid.uuid4()) while several requests are in flight: an id nobody holds
FreshIdAmong(used) ==
    CHOOSE i \in 1..(Cardinality(used) + 1) : i \notin used /\ \A j \in 1..(i - 1) : j \in used

\* a request thread enters a helper: it chooses the references, builds the node
\* and runs _validate_node on the store as it is now; a rejected node is returned
\* at once, a valid one is held by the thread on its way to the insertion
RequestValidate(t) ==
    /\ inflight[t].pc = "idle"
    /\ Cardinality(UsedIds) < MaxThreadNodes
    /\ \E c \in HelperCalls, refs \in choose_references(tips),
          time \in {x \in Timestamps : x >= clock}, sig \in Signatures :
          LET n == Node(FreshIdAmong(UsedIds), c[3], c[2], c[4], time, refs, sig, c[5])
              message == ValidateNode(nodes, n)
          IN  /\ clock' = time
              /\ IF IsValid(message)
                 THEN /\ inflight' = [inflight EXCEPT ![t] = [pc |-> "validated", op |-> c[1], node |-> n]]
                      /\ UNCHANGED last
                 ELSE /\ last' = ReturnOf(c[1], n, FALSE, message)
                      /\ UNCHANGED inflight
    /\ UNCHANGED <<nodes, tips, disk, firstReg, cand>>

\* self.nodes[node.node_id] = node
RequestInsert(t) ==
    /\ inflight[t].pc = "validated"
    /\ nodes' = DictSet(nodes, inflight[t].node)
    /\ inflight' = [inflight EXCEPT ![t].pc = "inserted"]
    /\ UNCHANGED <<tips, disk, clock, last, firstReg, cand>>

\* the loop over node.references and self.tips.add(node.node_id)
RequestUpdateTips(t) ==
    /\ inflight[t].pc = "inserted"
    /\ tips' = UpdateTips(tips, inflight[t].node)
    /\ inflight' = [inflight EXCEPT ![t].pc = "tips_updated"]
    /\ UNCHANGED <<nodes, disk, clock, last, firstReg, cand>>

\* self.save() and the return of add_node and of the helper
RequestSave(t) ==
    /\ inflight[t].pc = "tips_updated"
    /\ disk' = Snapshot(nodes, tips)
    /\ last' = ReturnOf(inflight[t].op, inflight[t].node, TRUE,
                        <<"Node added successfully", inflight[t].node.node_id>>)
    /\ inflight' = [inflight EXCEPT ![t] = Idle]
    /\ UNCHANGED <<nodes, tips, clock, firstReg, cand>>

\* api_blockchain_stats on another thread: total_nodes and total_tips
StatsCall ==
    /\ last' = Returned("blockchain_stats", NoVal, NoVal, NoVal, TRUE,
                        <<Len(nodes), Cardinality(tips)>>)
    /\ UNCHANGED <<nodes, tips, disk, clock, firstReg, cand, inflight>>

\* the nodes built by a caller of add_node who sets the timestamp and the data and
\* takes the references from choose_references, or passes none
QueryCandidates(ns, tp) ==
    UNION {{Node(FreshId(ns), a, act, u, t, refs, sig, d) :
               a \in Assets, u \in Users, t \in Timestamps,
               refs \in {<<>>} \cup choose_references(tp),
               sig \in Signatures, d \in DataChoices(act)} :
           act \in Actions}

\* blockchain.add_node(Node(...)) by such a caller
AddNodeCallQuery ==
    /\ Len(nodes) < MaxQueryNodes
    /\ \E n \in QueryCandidates(nodes, tips) : AddNode(n, "add_node")
    /\ UNCHANGED <<clock, firstReg, cand, inflight>>

\* blockchain.choose_references()
ChooseReferencesCall ==
    /\ \E refs \in choose_references(tips) :
          last' = Returned("choose_references", NoVal, NoVal, NoVal, TRUE, refs)
    /\ UNCHANGED <<nodes, tips, disk, clock, firstReg, cand, inflight>>

\* blockchain.get_user_assets(user_id): the list of a set, kept as the set
UserAssetsCall ==
    /\ \E u \in Users :
          last' = Returned("get_user_assets", NoVal, NoVal, u, TRUE,
                           <<get_user_assets(nodes, u)>>)
    /\ UNCHANGED <<nodes, tips, disk, clock, firstReg, cand, inflight>>

\* verify_asset_ownership(blockchain, asset_id, user_id)
VerifyOwnershipCall ==
    /\ \E a \in Assets, u \in Users :
          last' = Returned("verify_asset_ownership", NoVal, a, u, TRUE,
                           <<verify_asset_ownership(nodes, a, u)>>)
    /\ UNCHANGED <<nodes, tips, disk, clock, firstReg, cand, inflight>>

\* DAG.get_tips: the Node objects whose ids are in tips (a list in the iteration
\* order of the set, kept as the set)
get_tips(ns, tp) == {ns[i] : i \in {j \in DOMAIN ns : ns[j].node_id \in tp}}

\* blockchain.get_tips()
GetTipsCall ==
    /\ tips \subseteq KeysOf(nodes)
    /\ last' = Returned("get_tips", NoVal, NoVal, NoVal, TRUE, <<get_tips(nodes, tips)>>)
    /\ UNCHANGED <<nodes, tips, disk, clock, firstReg, cand, inflight>>


\* any of the three helpers, while the store holds fewer than `max` nodes
HelperCallBelow(max) ==
    /\ Len(nodes) < max
    /\ \E c \in HelperCalls, refs \in choose_references(tips),
          t \in {x \in Timestamps : x >= clock}, sig \in Signatures :
          /\ clock' = t
          /\ AddNode(Node(FreshId(nodes), c[3], c[2], c[4], t, refs, sig, c[5]), c[1])
    /\ UNCHANGED <<firstReg, cand, inflight>>

\* ids that are the key of no node (uuid4 hands out none of them)
MissingIds == {9}

\* the file at storage_path is edited outside the process: the hash written in
\* one node record is replaced
EditFileHashCall ==
    /\ disk.exists /\ disk.complete
    /\ \E i \in DOMAIN disk.nodes :
          /\ disk.nodes[i].hash # CorruptHash
          /\ disk' = [disk EXCEPT !.nodes[i].hash = CorruptHash]
          /\ last' = Returned("edit_file", NoVal, NoVal, NoVal, TRUE,
                              <<"hash", disk.nodes[i].node_id>>)
    /\ UNCHANGED <<nodes, tips, clock, firstReg, cand, inflight>>

\* the file at storage_path is edited outside the process: the references written
\* in one node record are replaced by the id of no node
EditFileReferencesCall ==
    /\ disk.exists /\ disk.complete
    /\ \E i \in DOMAIN disk.nodes, m \in MissingIds :
          /\ disk.nodes[i].references # <<m>>
          /\ disk' = [disk EXCEPT !.nodes[i].references = <<m>>]
          /\ last' = Returned("edit_file", NoVal, NoVal, NoVal, TRUE,
                              <<"references", disk.nodes[i].node_id>>)
    /\ UNCHANGED <<nodes, tips, clock, firstReg, cand, inflight>>

-----------------------------------------------------------------------------
(* inlock_blockchain.py: its own DAG class and helpers *)

\* the DAG of inlock_blockchain.py on a path where no file exists: its nodes, its
\* tips, its file, and what the last call on it returned
inlock_Empty ==
    [nodes |-> <<>>, tips |-> {}, disk |-> NoFile,
     last |-> Returned("init", NoVal, NoVal, NoVal, TRUE, <<>>)]

\* DAG.get_asset_nodes (inlock_blockchain.py)
inlock_get_asset_nodes(ns, a) == SelectSeq(ns, LAMBDA n : n.asset_id = a)

\* the loop of DAG.get_asset_ownership_history (inlock_blockchain.py) from the
\* i-th sorted node on, appending to the history built so far
RECURSIVE inlock_Replay(_, _, _)
inlock_Replay(s, i, ownership_history) ==
    IF i > Len(s) THEN ownership_history
    ELSE IF s[i].action = "register"
         THEN inlock_Replay(s, i + 1,
                  Append(ownership_history,
                         [user_id |-> s[i].user_id, timestamp |-> s[i].timestamp,
                          node_id |-> s[i].node_id, action |-> "register"]))
    ELSE IF s[i].action = "transfer" /\ "recipient_id" \in DOMAIN s[i].data
         THEN inlock_Replay(s, i + 1,
                  Append(ownership_history,
                         [user_id |-> s[i].data["recipient_id"], timestamp |-> s[i].timestamp,
                          node_id |-> s[i].node_id, action |-> "transfer"]))
    ELSE inlock_Replay(s, i + 1, ownership_history)

\* DAG.get_asset_ownership_history (inlock_blockchain.py)
inlock_get_asset_ownership_history(ns, a) ==
    LET asset_nodes == inlock_get_asset_nodes(ns, a)
    IN  IF asset_nodes = <<>> THEN <<>>
        ELSE inlock_Replay(SortByTimestamp(asset_nodes), 1, <<>>)

\* DAG.get_user_assets (inlock_blockchain.py)
inlock_get_user_assets(ns, u) ==
    LET all_assets == {ns[i].asset_id : i \in DOMAIN ns}
    IN  {a \in all_assets :
            LET ownership_history == inlock_get_asset_ownership_history(ns, a)
            IN  /\ ownership_history # <<>>
                /\ ownership_history[Len(ownership_history)].user_id = u}

\* DAG.get_user_staking_balance (inlock_blockchain.py): the loop over the user's
\* staking nodes from the i-th on, adding to total_staking
RECURSIVE inlock_StakingLoop(_, _, _)
inlock_StakingLoop(staking_nodes, i, total_staking) ==
    IF i > Len(staking_nodes) THEN total_staking
    ELSE inlock_StakingLoop(staking_nodes, i + 1,
             total_staking + (IF "staking_amount" \in DOMAIN staking_nodes[i].data
                              THEN staking_nodes[i].data["staking_amount"] ELSE 1))

inlock_get_user_staking_balance(ns, u) ==
    inlock_StakingLoop(SelectSeq(ns, LAMBDA n : n.action = "staking" /\ n.user_id = u), 1, 0)

\* mutant: a staking node is not checked against the owner of the asset
inlock_ValidateNode_StakingUnchecked(ns, n) ==
    IF n.action = "staking" /\ ~HasNode(ns, n.node_id) /\ Len(n.references) = 0
    THEN <<"Node is valid">>
    ELSE ValidateNode(ns, n)

\* DAG._validate_node (inlock_blockchain.py)
inlock_ValidateNode(ns, n) ==
    IF \E i \in DOMAIN ns : ns[i].node_id = n.node_id
    THEN <<"Node with ID already exists", n.node_id>>
    ELSE IF \E k \in DOMAIN n.references : ~HasNode(ns, n.references[k])
    THEN <<"Referenced node does not exist",
           n.references[CHOOSE k \in DOMAIN n.references :
                            /\ ~HasNode(ns, n.references[k])
                            /\ \A j \in 1..(k - 1) : HasNode(ns, n.references[j])]>>
    ELSE IF Len(n.references) > 2
    THEN <<"A node cannot have more than 2 references">>
    ELSE IF n.action = "register"
    THEN IF \E i \in DOMAIN ns : ns[i].asset_id = n.asset_id /\ ns[i].action = "register"
         THEN <<"Asset is already registered", n.asset_id>>
         ELSE <<"Node is valid">>
    ELSE LET owner_history == inlock_get_asset_ownership_history(ns, n.asset_id)
             current_owner == owner_history[Len(owner_history)].user_id
         IN  IF n.action = "transfer"
             THEN IF owner_history = <<>>
                  THEN <<"Asset is not registered", n.asset_id>>
                  ELSE IF current_owner # n.user_id
                  THEN <<"Transfer requested by, but asset is owned by", n.user_id, current_owner>>
                  ELSE IF "recipient_id" \notin DOMAIN n.data
                  THEN <<"Transfer must include a recipient_id in the data">>
                  ELSE <<"Node is valid">>
             ELSE IF n.action = "staking"
             THEN IF owner_history = <<>>
                  THEN <<"Asset is not registered", n.asset_id>>
                  ELSE IF current_owner # n.user_id
                  THEN <<"Staking requested by, but asset is owned by", n.user_id, current_owner>>
                  ELSE <<"Node is valid">>
             ELSE <<"Node is valid">>

\* DAG.save (inlock_blockchain.py): the file it writes
inlock_save(ns, tp) ==
    [exists |-> TRUE, complete |-> TRUE,
     nodes |-> [i \in DOMAIN ns |-> to_dict(ns[i])], tips |-> tp]

\* DAG.add_node (inlock_blockchain.py) on the store st, called by `op`: the store
\* afterwards, with (False, message) or (True, node_id) as what was returned
inlock_add_node(st, n, op) ==
    LET message == inlock_ValidateNode(st.nodes, n)
        withNode == IF HasNode(st.nodes, n.node_id)
                    THEN [i \in DOMAIN st.nodes |->
                             IF st.nodes[i].node_id = n.node_id THEN n ELSE st.nodes[i]]
                    ELSE Append(st.nodes, n)
        withTips == {t \in st.tips : \A k \in DOMAIN n.references : n.references[k] # t}
                    \cup {n.node_id}
    IN  IF message # <<"Node is valid">>
        THEN [st EXCEPT !.last = Returned(op, n.action, n.asset_id, n.user_id, FALSE, message)]
        ELSE [nodes |-> withNode, tips |-> withTips, disk |-> inlock_save(withNode, withTips),
              last |-> Returned(op, n.action, n.asset_id, n.user_id, TRUE,
                                <<"node_id", n.node_id>>)]

\* the nodes handed to both DAG classes: built with the references the store
\* offers or with none, under the id of a stored node, or breaking several rules
TwinCandidates(ns, tp) ==
    QueryCandidates(ns, tp) \cup DuplicateCandidates(ns) \cup MultiFaultCandidates(ns)

\* the same Node object is handed to add_node of both DAG classes
TwinAddNodeCall ==
    /\ Len(nodes) < MaxTwinNodes
    /\ \E n \in TwinCandidates(nodes, tips) :
          /\ AddNode(n, "add_node")
          /\ inlock' = inlock_add_node(inlock, n, "add_node")
    /\ UNCHANGED <<clock, firstReg, cand, inflight>>

\* DAG.choose_references (inlock_blockchain.py): the lists it can return
inlock_choose_references(tp) ==
    IF Cardinality(tp) >= 2
    THEN {<<p[1], p[2]>> : p \in {q \in tp \X tp : q[1] # q[2]}}
    ELSE Orderings(tp)

\* register_asset, transfer_asset and stake_asset of inlock_blockchain.py on the
\* store st: call c of HelperCalls, with the references chosen and the time read
inlock_Helper(st, c, t, refs, sig) ==
    inlock_add_node(st, Node(FreshId(st.nodes), c[3], c[2], c[4], t, refs, sig, c[5]), c[1])

\* the same helper call is made on both stores
TwinHelperCall ==
    /\ Len(nodes) < MaxNfcNodes
    /\ \E c \in HelperCalls, refs \in choose_references(tips),
          inlock_refs \in inlock_choose_references(inlock.tips),
          t \in {x \in Timestamps : x >= clock}, sig \in Signatures :
          /\ clock' = t
          /\ AddNode(Node(FreshId(nodes), c[3], c[2], c[4], t, refs, sig, c[5]), c[1])
          /\ inlock' = inlock_Helper(inlock, c, t, inlock_refs, sig)
    /\ UNCHANGED <<firstReg, cand, inflight>>

-----------------------------------------------------------------------------
(* process_nfc_tag: app.py and inlock_blockchain.py *)

\* what data.get('tag_id') and data.get('user_id') give: None when the key is missing
TagIds == Assets \cup {NoVal}
ScanUsers == Users \cup {NoVal}

\* the asset_data built from a request that has none of the optional keys
TagData ==
    [tag_type |-> "NFC", tag_technologies |-> <<>>, ndef_message |-> "",
     scanned_timestamp |-> 0]

\* mutant: only the register nodes of the scanning user are looked for
asset_exists_OfThisUser(ns, tag_id, user_id) ==
    \E i \in DOMAIN ns :
        ns[i].asset_id = tag_id /\ ns[i].action = "register" /\ ns[i].user_id = user_id

\* the loop of process_nfc_tag (app.py) over blockchain.nodes: some node is a
\* register node of the tag (the scanning user plays no part in it)
asset_exists(ns, tag_id, user_id) ==
    \E i \in DOMAIN ns : ns[i].asset_id = tag_id /\ ns[i].action = "register"

\* process_nfc_tag of app.py, on the DAG of blockchain_dag.py; the response is
\* the 400 message, or success, result, action and asset_id
process_nfc_tag(tag_id, user_id, t, refs, sig) ==
    IF tag_id = NoVal \/ user_id = NoVal
    THEN /\ last' = Returned("process_nfc_tag", NoVal, tag_id, user_id, FALSE,
                             <<"Missing tag_id or user_id">>)
         /\ UNCHANGED <<nodes, tips, disk>>
    ELSE IF asset_exists(nodes, tag_id, user_id)
    THEN AddNode(Node(FreshId(nodes), tag_id, "staking", user_id, t, refs, sig, StakingData(1)),
                 "process_nfc_tag")
    ELSE AddNode(Node(FreshId(nodes), tag_id, "register", user_id, t, refs, sig, TagData),
                 "process_nfc_tag")

\* process_nfc_tag of inlock_blockchain.py, on its own DAG st: the store afterwards
inlock_process_nfc_tag(st, tag_id, user_id, t, refs, sig) ==
    IF tag_id = NoVal \/ user_id = NoVal
    THEN [st EXCEPT !.last = Returned("process_nfc_tag", NoVal, tag_id, user_id, FALSE,
                                      <<"Missing tag_id or user_id">>)]
    ELSE IF \E i \in DOMAIN st.nodes :
                st.nodes[i].asset_id = tag_id /\ st.nodes[i].action = "register"
    THEN inlock_add_node(st, Node(FreshId(st.nodes), tag_id, "staking", user_id, t, refs, sig,
                                  StakingData(1)), "process_nfc_tag")
    ELSE inlock_add_node(st, Node(FreshId(st.nodes), tag_id, "register", user_id, t, refs, sig,
                                  TagData), "process_nfc_tag")

\* the same scan is posted to /process_nfc_tag of both servers
ProcessNfcTagCall ==
    /\ Len(nodes) < MaxNfcNodes
    /\ \E tag_id \in TagIds, user_id \in ScanUsers, refs \in choose_references(tips),
          inlock_refs \in inlock_choose_references(inlock.tips),
          t \in {x \in Timestamps : x >= clock}, sig \in Signatures :
          /\ clock' = t
          /\ process_nfc_tag(tag_id, user_id, t, refs, sig)
          /\ inlock' = inlock_process_nfc_tag(inlock, tag_id, user_id, t, inlock_refs, sig)
    /\ UNCHANGED <<firstReg, cand, inflight>>

-----------------------------------------------------------------------------
(* Specifications *)

\* DAG.__init__ on a path where no file exists
Init ==
    /\ nodes = <<>>
    /\ tips = {}
    /\ disk = NoFile
    /\ clock = 1
    /\ last = Returned("init", NoVal, NoVal, NoVal, TRUE, <<>>)
    /\ firstReg = [a \in Assets |-> "none"]
    /\ cand = NoCandidate
    /\ inflight = [t \in Threads |-> Idle]
    /\ inlock = inlock_Empty

\* callers of add_node with nodes of their own making, and the read-only calls
Next ==
    \/ AddNodeCall /\ UNCHANGED inlock
    \/ OwnershipHistoryCall /\ UNCHANGED inlock
    \/ VerifyIntegrityCall /\ UNCHANGED inlock

Spec == Init /\ [][Next]_vars

\* sequential add_node calls, with the history of first register candidates
NextTracked == AddNodeCallTracked /\ UNCHANGED inlock

SpecTracked == Init /\ [][NextTracked]_vars

\* the store driven only through the helper API, and the read-only calls
NextApi ==
    \/ register_asset /\ UNCHANGED inlock
    \/ transfer_asset /\ UNCHANGED inlock
    \/ stake_asset /\ UNCHANGED inlock
    \/ OwnershipHistoryCall /\ UNCHANGED inlock
    \/ StakingBalanceCall /\ UNCHANGED inlock
    \/ VerifyIntegrityCall /\ UNCHANGED inlock

SpecApi == Init /\ [][NextApi]_vars

\* sequential add_node calls, with the candidate of the last call
NextLogged == AddNodeCallLogged /\ UNCHANGED inlock

SpecLogged == Init /\ [][NextLogged]_vars

\* sequential add_node calls with any action string
NextOpen == AddNodeCallOpen /\ UNCHANGED inlock

SpecOpen == Init /\ [][NextOpen]_vars

\* the helper API on a store whose Node objects can have their hash overwritten
NextTamper ==
    \/ register_asset /\ UNCHANGED inlock
    \/ transfer_asset /\ UNCHANGED inlock
    \/ stake_asset /\ UNCHANGED inlock
    \/ TamperHashCall /\ UNCHANGED inlock
    \/ VerifyIntegrityCall /\ UNCHANGED inlock

SpecTamper == Init /\ [][NextTamper]_vars

\* a Node object in the hands of a caller, no store involved
InitNode ==
    /\ nodes = <<>>
    /\ tips = {}
    /\ disk = NoFile
    /\ clock = 1
    /\ last = Returned("init", NoVal, NoVal, NoVal, TRUE, <<>>)
    /\ firstReg = [a \in Assets |-> "none"]
    /\ cand \in NodeInputs
    /\ inflight = [t \in Threads |-> Idle]
    /\ inlock = inlock_Empty

\* the methods of Node
NextNode ==
    \/ RoundTripCall /\ UNCHANGED inlock
    \/ HashPairCall /\ UNCHANGED inlock

SpecNode == InitNode /\ [][NextNode]_vars

\* the helper API on a file system that can fail, and restarts of the process
NextPersist ==
    \/ register_asset /\ UNCHANGED inlock
    \/ transfer_asset /\ UNCHANGED inlock
    \/ stake_asset /\ UNCHANGED inlock
    \/ HelperSaveFails /\ UNCHANGED inlock
    \/ RestartCall /\ UNCHANGED inlock

SpecPersist == Init /\ [][NextPersist]_vars

\* the Flask server: every request runs on a thread of its own against the one
\* store of the process, and nothing in add_node keeps the threads apart
NextThreads ==
    \/ \E t \in Threads : RequestValidate(t) /\ UNCHANGED inlock
    \/ \E t \in Threads : RequestInsert(t) /\ UNCHANGED inlock
    \/ \E t \in Threads : RequestUpdateTips(t) /\ UNCHANGED inlock
    \/ \E t \in Threads : RequestSave(t) /\ UNCHANGED inlock
    \/ StatsCall /\ UNCHANGED inlock

SpecThreads == Init /\ [][NextThreads]_vars

\* add_node calls with caller-set timestamps, and the queries
NextQuery ==
    \/ AddNodeCallQuery /\ UNCHANGED inlock
    \/ ChooseReferencesCall /\ UNCHANGED inlock
    \/ OwnershipHistoryCall /\ UNCHANGED inlock
    \/ UserAssetsCall /\ UNCHANGED inlock
    \/ StakingBalanceCall /\ UNCHANGED inlock
    \/ VerifyOwnershipCall /\ UNCHANGED inlock
    \/ GetTipsCall /\ UNCHANGED inlock

SpecQuery == Init /\ [][NextQuery]_vars

\* the helper API on a store whose file can be edited between two runs of the
\* process and whose Node objects can have their hash overwritten
NextCorrupt ==
    \/ HelperCallBelow(MaxCorruptNodes) /\ UNCHANGED inlock
    \/ EditFileHashCall /\ UNCHANGED inlock
    \/ EditFileReferencesCall /\ UNCHANGED inlock
    \/ RestartCall /\ UNCHANGED inlock
    \/ TamperHashCall /\ UNCHANGED inlock
    \/ VerifyIntegrityCall /\ UNCHANGED inlock

SpecCorrupt == Init /\ [][NextCorrupt]_vars

\* the DAG of blockchain_dag.py and the DAG of inlock_blockchain.py, fed the same
\* candidate nodes
NextTwin == TwinAddNodeCall

SpecTwin == Init /\ [][NextTwin]_vars

\* the two servers with a /process_nfc_tag endpoint, sent the same requests one at
\* a time: tag scans and helper calls
NextNfc ==
    \/ ProcessNfcTagCall
    \/ TwinHelperCall

SpecNfc == Init /\ [][NextNfc]_vars

-----------------------------------------------------------------------------
(* Properties *)

\* the ids some stored node lists in its references
Referenced(ns) == UNION {Range(ns[i].references) : i \in DOMAIN ns}

\* the node a step has just added at the end of nodes
Added == nodes'[Len(nodes')]

\* the stored register nodes of an asset
RegisterNodes(ns, a) == {ns[i] : i \in {j \in DOMAIN ns : ns[j].asset_id = a /\ ns[j].action = "register"}}

\* the owners of a history, in order
OwnersOf(h) == [i \in DOMAIN h |-> h[i].user_id]

\* C1: tips is exactly the set of stored node ids that no stored node lists in its
\* references
C1_TipsAreTheUnreferencedNodes == tips = KeysOf(nodes) \ Referenced(nodes)

\* C1 witness: a node referencing two stored nodes has been admitted, and they left tips
C1_Witness ==
    \E i \in DOMAIN nodes :
        /\ Len(nodes[i].references) = 2
        /\ Range(nodes[i].references) \cap tips = {}
        /\ nodes[i].node_id \in tips

\* C2 as stated: no two stored register nodes share an asset_id, and the stored
\* register node of an asset is the first register candidate submitted for it
C2_FirstSubmittedWins ==
    /\ \A a \in Assets : Cardinality(RegisterNodes(nodes, a)) <= 1
    /\ \A a \in Assets : HasRegister(nodes, a) => firstReg[a] = "admitted"

\* C2 amended: no two stored register nodes share an asset_id, an asset whose first
\* register candidate was admitted keeps that node, and the stored register node of
\* an asset is never replaced or joined by a later candidate (the first one admitted wins)
C2_FirstAdmittedWins ==
    /\ [](\A a \in Assets :
            /\ Cardinality(RegisterNodes(nodes, a)) <= 1
            /\ (firstReg[a] = "admitted") => HasRegister(nodes, a)
            /\ HasRegister(nodes, a) => firstReg[a] \in {"admitted", "rejected"})
    /\ [][\A a \in Assets :
            HasRegister(nodes, a) => RegisterNodes(nodes', a) = RegisterNodes(nodes, a)]_vars

\* C2 witness: a second register candidate of a registered asset has been rejected
C2_Witness ==
    /\ last.op = "add_node" /\ ~last.ok
    /\ last.message[1] = "Asset is already registered"
    /\ \E a \in Assets : HasRegister(nodes, a) /\ firstReg[a] = "admitted"

\* C3: when a transfer or staking node is admitted, the state before the admission
\* holds a register node of its asset and the node's user_id is the last owner of
\* the asset's ownership history
C3_AdmittedByCurrentOwner ==
    [][(Len(nodes') > Len(nodes) /\ Added.action \in {"transfer", "staking"}) =>
          LET h == get_asset_ownership_history(nodes, Added.asset_id) IN
          /\ HasRegister(nodes, Added.asset_id)
          /\ h # <<>>
          /\ h[Len(h)].user_id = Added.user_id]_vars

\* C3 witness: a transfer and a staking node are stored
C3_Witness ==
    /\ \E i \in DOMAIN nodes : nodes[i].action = "transfer"
    /\ \E i \in DOMAIN nodes : nodes[i].action = "staking"

\* C4: register_asset on an asset that has a stored register node returns a
\* rejection and leaves nodes and tips as they were
C4_DoubleRegistrationRejected ==
    [][(last'.op = "register_asset" /\ HasRegister(nodes, last'.asset_id)) =>
          (~last'.ok /\ nodes' = nodes /\ tips' = tips)]_vars

\* C4 witness: a second registration, by another user than the registrant, was rejected
C4_Witness ==
    /\ last.op = "register_asset" /\ ~last.ok
    /\ \E n \in RegisterNodes(nodes, last.asset_id) : n.user_id # last.user_id

\* C5: transfer_asset or stake_asset by a user who is not the last owner of the
\* asset's history is rejected with the 'requested by X, but asset is owned by Y'
\* message, and nodes, tips and the snapshot are unchanged
C5_NotCurrentOwnerRejected ==
    [][LET h == get_asset_ownership_history(nodes, last'.asset_id) IN
       (/\ last'.op \in {"transfer_asset", "stake_asset"}
        /\ h # <<>>
        /\ h[Len(h)].user_id # last'.user_id) =>
          /\ ~last'.ok
          /\ last'.message =
                <<IF last'.op = "transfer_asset"
                  THEN "Transfer requested by, but asset is owned by"
                  ELSE "Staking requested by, but asset is owned by",
                  last'.user_id, h[Len(h)].user_id>>
          /\ nodes' = nodes /\ tips' = tips /\ disk' = disk]_vars

\* C5 witness: the previous owner of a transferred asset was refused
C5_Witness ==
    /\ last.op \in {"transfer_asset", "stake_asset"} /\ ~last.ok
    /\ last.message[1] \in {"Transfer requested by, but asset is owned by",
                            "Staking requested by, but asset is owned by"}
    /\ \E n \in RegisterNodes(nodes, last.asset_id) : n.user_id = last.user_id

\* the recipient of the transfer node of the asset admitted last, or the registrant
\* if no transfer node of the asset is stored
LastAdmittedOwner(ns, a) ==
    LET xs == {i \in DOMAIN ns : ns[i].asset_id = a /\ ns[i].action = "transfer"}
        r == CHOOSE i \in DOMAIN ns : ns[i].asset_id = a /\ ns[i].action = "register"
    IN  IF xs = {} THEN ns[r].user_id
        ELSE ns[CHOOSE i \in xs : \A j \in xs : j <= i].data["recipient_id"]

\* C6 as stated: the current owner of a registered asset is the recipient of the
\* most recently admitted transfer, or the registrant if none was admitted
C6_OwnerIsLastAdmittedRecipient ==
    \A a \in Assets :
        HasRegister(nodes, a) => CurrentOwner(nodes, a) = LastAdmittedOwner(nodes, a)

\* the stores of the scenario of C7
IsNode(n, a, action, u, d) ==
    n.asset_id = a /\ n.action = action /\ n.user_id = u /\ n.data = d
C7_Registered == Len(nodes) >= 1 /\ IsNode(nodes[1], "A1", "register", "U1", EmptyData)
C7_Transferred ==
    C7_Registered /\ Len(nodes) >= 2 /\ IsNode(nodes[2], "A1", "transfer", "U1", RecipientData("U2"))
C7_Staked ==
    C7_Transferred /\ Len(nodes) = 3 /\ IsNode(nodes[3], "A1", "staking", "U2", StakingData(5))

\* C7: from the empty store register(A1,U1) succeeds and gives the history [U1];
\* then transfer(A1,U1->U2) succeeds and gives [U1,U2], current owner U2; then
\* stake(A1,U1) is rejected and changes nothing; then stake(A1,U2,5) succeeds and
\* the staking balance of U2 is 5
C7_Scenario ==
    /\ [](/\ (C7_Registered /\ Len(nodes) = 1) =>
                OwnersOf(get_asset_ownership_history(nodes, "A1")) = <<"U1">>
          /\ (C7_Transferred /\ Len(nodes) = 2) =>
                /\ OwnersOf(get_asset_ownership_history(nodes, "A1")) = <<"U1", "U2">>
                /\ CurrentOwner(nodes, "A1") = "U2"
          /\ C7_Staked => get_user_staking_balance(nodes, "U2") = 5)
    /\ [][/\ (nodes = <<>> /\ last'.op = "register_asset"
                /\ last'.asset_id = "A1" /\ last'.user_id = "U1") =>
                (last'.ok /\ C7_Registered' /\ Len(nodes') = 1)
          /\ (C7_Registered /\ Len(nodes) = 1 /\ last'.op = "transfer_asset"
                /\ last'.asset_id = "A1" /\ last'.user_id = "U1") =>
                (last'.ok /\ Len(nodes') = 2)
          /\ (C7_Transferred /\ Len(nodes) = 2 /\ last'.op = "stake_asset"
                /\ last'.asset_id = "A1" /\ last'.user_id = "U1") =>
                (~last'.ok /\ nodes' = nodes /\ tips' = tips /\ disk' = disk)
          /\ (C7_Transferred /\ Len(nodes) = 2 /\ last'.op = "stake_asset"
                /\ last'.asset_id = "A1" /\ last'.user_id = "U2") =>
                (last'.ok /\ Len(nodes') = 3)]_vars

\* C7 witness: the end of the scenario, the stake of 5 by U2 just admitted
C7_Witness ==
    /\ C7_Staked
    /\ last.op = "stake_asset" /\ last.ok
    /\ get_user_staking_balance(nodes, "U2") = 5

\* C8: when add_node returns a rejection, nodes, tips and the snapshot are as before
\* the call and a message naming the failed check is returned
C8_RejectionChangesNothing ==
    [][(last'.op = "add_node" /\ ~last'.ok) =>
          /\ nodes' = nodes /\ tips' = tips /\ disk' = disk
          /\ Len(last'.message) >= 1
          /\ ~IsValid(last'.message)]_vars

\* C8 witness: a candidate was rejected by a store that holds nodes and has a snapshot
C8_Witness ==
    /\ last.op = "add_node" /\ ~last.ok
    /\ Len(nodes) = 2 /\ disk.exists

\* C9: a successful add_node(n) appends n under a new id, leaves every stored node
\* as it was, and makes tips (tips minus n.references) plus n.node_id
C9_SuccessfulAdmissionEffect ==
    [][(last'.op = "add_node" /\ last'.ok) =>
          /\ Len(nodes') = Len(nodes) + 1
          /\ nodes' = Append(nodes, Added)
          /\ ~HasNode(nodes, Added.node_id)
          /\ Added.node_id = last'.message[2]
          /\ tips' = (tips \ Range(Added.references)) \cup {Added.node_id}]_vars

\* C9 witness: a node with two references was admitted last
C9_Witness ==
    /\ last.op = "add_node" /\ last.ok
    /\ Len(nodes) = 3 /\ Len(nodes[3].references) = 2

\* C10: a stored node stays stored under its id with all its fields, whatever call follows
C10_AppendOnly ==
    [][\A i \in DOMAIN nodes :
          \E j \in DOMAIN nodes' : nodes'[j] = nodes[i]]_vars

\* C10 witness: a candidate under a stored id was submitted to a store of two nodes
C10_Witness ==
    /\ Len(nodes) = 2
    /\ last.op = "add_node" /\ ~last.ok
    /\ last.message[1] = "Node with ID already exists"

\* C11: every stored node has at most two references, and each of them is the id of
\* a node stored before it (never its own id), so the reference graph has no cycle
C11_ReferencesPointBack ==
    \A i \in DOMAIN nodes :
        /\ Len(nodes[i].references) <= 2
        /\ \A r \in Range(nodes[i].references) :
              /\ r # nodes[i].node_id
              /\ \E j \in 1..(i - 1) : nodes[j].node_id = r

\* a node with a reference is stored, and a candidate naming its own (not yet
\* stored) id as a reference has just been turned down
C11_Witness ==
    /\ \E i \in DOMAIN nodes : nodes[i].references # <<>>
    /\ last.op = "add_node" /\ ~last.ok
    /\ last.message = <<"Referenced node does not exist", FreshId(nodes)>>

\* C12: add_node of a node whose node_id is already a key of the store is rejected
\* with the duplicate-id reason and the stored nodes stay as they were; the ids of
\* the stored nodes are pairwise different
C12_DuplicateIdRejected ==
    /\ [](\A i, j \in DOMAIN nodes : nodes[i].node_id = nodes[j].node_id => i = j)
    /\ [][HasNode(nodes, cand'.node_id) =>
            /\ ~last'.ok
            /\ last'.message = <<"Node with ID already exists", cand'.node_id>>
            /\ nodes' = nodes /\ tips' = tips]_vars

\* a candidate under a stored id, with fields other than the stored node's and an
\* action the store would turn down by itself, has been rejected
C12_Witness ==
    /\ HasNode(nodes, cand.node_id)
    /\ \E i \in DOMAIN nodes :
          nodes[i].node_id = cand.node_id /\ nodes[i].hash # cand.hash
    /\ ~IsValid(ValidateAction(nodes, cand))
    /\ last.op = "add_node" /\ ~last.ok

\* C13: every stored node has one of the actions register, transfer, staking (a
\* candidate with any other action is rejected and not stored)
C13_OnlyKnownActionsStored ==
    \A i \in DOMAIN nodes : nodes[i].action \in Actions

\* C14: in a store built from the empty store by add_node calls alone, every
\* reference of a stored node is a stored id and every stored hash is the hash
\* recomputed from the node's fields, and verify_integrity reports success
C14_IntegrityAfterAdmissions ==
    /\ \A i \in DOMAIN nodes :
          /\ \A r \in Range(nodes[i].references) : HasNode(nodes, r)
          /\ nodes[i].hash = CalculateHash(nodes[i])
    /\ verify_integrity(nodes) = <<TRUE, <<"DAG integrity verified">>>>
    /\ last.op = "verify_integrity" => last.ok

\* verify_integrity has returned success on a store of three nodes, one of which
\* references the two others
C14_Witness ==
    /\ Len(nodes) >= 3
    /\ \E i \in DOMAIN nodes : Cardinality(Range(nodes[i].references)) = 2
    /\ last.op = "verify_integrity" /\ last.ok

\* the positions of the stored nodes whose hash is not the hash of their fields
Altered(ns) == {i \in DOMAIN ns : ns[i].hash # CalculateHash(ns[i])}

\* C15: when exactly one stored node has an altered hash and every reference
\* resolves, verify_integrity returns failure with the hash-mismatch message
\* naming that node's id
C15_AlteredHashIsNamed ==
    [][\A i \in DOMAIN nodes :
          (/\ last'.op = "verify_integrity"
           /\ Altered(nodes) = {i}
           /\ \A j \in DOMAIN nodes : \A r \in Range(nodes[j].references) : HasNode(nodes, r))
          => /\ ~last'.ok
             /\ last'.message = <<"Hash mismatch for node", nodes[i].node_id>>]_vars

\* verify_integrity has named the second of three nodes, the only altered one
C15_Witness ==
    /\ Len(nodes) >= 3
    /\ Altered(nodes) = {2}
    /\ last.op = "verify_integrity" /\ ~last.ok
    /\ last.message = <<"Hash mismatch for node", nodes[2].node_id>>

\* C16: Node.from_dict(n.to_dict()) equals n field for field, the hash included,
\* for every Node n, one whose stored hash is not the hash of its fields included
C16_RoundTripKeepsEveryField ==
    last.op = "from_dict(to_dict)" =>
        \A f \in PersistedFields \cup {"hash"} : last.message[1][f] = cand[f]

\* C17: two nodes that differ in one of node_id, asset_id, action, user_id,
\* timestamp, references, data, signature have different hashes
C17_EveryFieldIsHashed ==
    last.op = "_calculate_hash" => last.message[1].hash # cand.hash

\* the file holds, in the order of the store, a record of every stored node with
\* the node's nine fields, and the ids of the tips
FileHolds(file, ns, tp) ==
    /\ file.exists /\ file.complete
    /\ DOMAIN file.nodes = DOMAIN ns
    /\ \A i \in DOMAIN ns :
          \A f \in PersistedFields \cup {"hash"} : file.nodes[i][f] = ns[i][f]
    /\ file.tips = tp

\* C18: after an add_node call that returned success the snapshot file holds the
\* store as it is in memory (same ids, same records, same tips); a rejected
\* add_node call and a query leave the file as it was
C18_SnapshotFollowsAdmissions ==
    [][IF last'.op = "add_node" /\ last'.ok
       THEN FileHolds(disk', nodes', tips')
       ELSE disk' = disk]_vars

\* the file holds a store of two nodes, both tips, and the call after the one that
\* wrote it was a rejected add_node
C18_Witness ==
    /\ Len(nodes) >= 2 /\ Cardinality(tips) = 2
    /\ FileHolds(disk, nodes, tips)
    /\ last.op = "add_node" /\ ~last.ok

HelperOps == {"register_asset", "transfer_asset", "stake_asset"}

\* C19: what load reads from the file save has just written is the store that
\* saved it (same nodes with the same fields in the same order, same tips), so a
\* restart changes neither the store nor the result of any ownership, asset or
\* staking query
C19_SaveLoadIsIdentity ==
    /\ []((last.op \in HelperOps /\ last.ok) =>
            /\ LoadNodes(disk) = nodes
            /\ LoadTips(disk) = tips
            /\ \A a \in Assets :
                  get_asset_ownership_history(LoadNodes(disk), a)
                      = get_asset_ownership_history(nodes, a)
            /\ \A u \in Users :
                  /\ get_user_assets(LoadNodes(disk), u) = get_user_assets(nodes, u)
                  /\ get_user_staking_balance(LoadNodes(disk), u)
                         = get_user_staking_balance(nodes, u))
    /\ [][(last.op \in HelperOps /\ last.ok /\ last'.op = "restart") =>
             nodes' = nodes /\ tips' = tips]_vars

\* a restart has read back a store of three nodes from the file that holds them
C19_Witness ==
    /\ last.op = "restart"
    /\ Len(nodes) >= 3
    /\ FileHolds(disk, nodes, tips)

\* C20: when the snapshot cannot be written during an admission that passed
\* validation, the call fails and the node is neither in nodes nor in tips
C20_FailedSaveLeavesStoreUntouched ==
    (last.op \in HelperOps /\ ~last.ok /\ last.message[1] = "save raised") =>
        /\ ~HasNode(nodes, last.message[2])
        /\ last.message[2] \notin tips

\* C21: whatever way the calls made so far ended (node added, node rejected, save
\* raised), every tip is the id of a stored node and a stored node is a tip exactly
\* when no stored node references it
C21_TipsConsistentAfterAnyCall ==
    /\ \A id \in tips : HasNode(nodes, id)
    /\ \A i \in DOMAIN nodes :
          (nodes[i].node_id \in tips)
              <=> (\A j \in DOMAIN nodes : nodes[i].node_id \notin Range(nodes[j].references))

\* save has raised during the admission of a node with a reference, and the file
\* lags behind the store
C21_Witness ==
    /\ last.op \in HelperOps /\ ~last.ok /\ last.message[1] = "save raised"
    /\ \E i \in DOMAIN nodes :
          nodes[i].node_id = last.message[2] /\ nodes[i].references # <<>>
    /\ ~FileHolds(disk, nodes, tips)

\* every stored node passes _validate_node on the store made of the nodes before it
AdmittedInOrder(ns) ==
    \A i \in DOMAIN ns : IsValid(ValidateNode(SubSeq(ns, 1, i - 1), ns[i]))

\* C22: with several requests in flight no admission validates between another
\* admission's validation and its insertion: every stored node was valid for the
\* store it was inserted into (no second register node of an asset, no second
\* transfer by an owner who has already given the asset away)
C22_AdmissionsAreExclusive == AdmittedInOrder(nodes)

\* C23: a read made while an admission is in flight finds nodes and tips in
\* agreement: the tips are the stored nodes no stored node references
C23_ReadsSeeConsistentStore ==
    [][(last' # last /\ last'.op = "blockchain_stats") =>
          tips = KeysOf(nodes) \ Referenced(nodes)]_vars

\* the store that admitted the same nodes in the same order, each built at the time
\* of its admission (timestamp 1 for the first, 2 for the second, ...)
Retimed(ns) ==
    [i \in DOMAIN ns |->
        Node(ns[i].node_id, ns[i].asset_id, ns[i].action, ns[i].user_id, i,
             ns[i].references, ns[i].signature, ns[i].data)]

\* C24: two stores that admitted the same events in the same order, with different
\* timestamps, give the same current owner for every asset
C24_OwnerIndependentOfTimestamps ==
    AdmittedInOrder(Retimed(nodes)) =>
        \A a \in Assets : CurrentOwner(nodes, a) = CurrentOwner(Retimed(nodes), a)

\* what the node a step has added is worth to user u: its staking_amount (1 when
\* the key is absent) if it is a staking node of u, nothing otherwise
Credit(u) ==
    IF Len(nodes') > Len(nodes) /\ Added.action = "staking" /\ Added.user_id = u
    THEN (IF "staking_amount" \in DOMAIN Added.data THEN Added.data["staking_amount"] ELSE 1)
    ELSE 0

\* C25: get_user_staking_balance(u) is the sum of staking_amount (1 when absent)
\* over the stored staking nodes of u: it is 0 on the empty store, a stake of k by u
\* raises u's balance by k and nobody else's, and every other step (a transfer
\* included) leaves every balance as it was
C25_StakingBalanceIsTheSum ==
    /\ [](nodes = <<>> => \A u \in Users : get_user_staking_balance(nodes, u) = 0)
    /\ [](last.op = "get_user_staking_balance" =>
             last.message = <<get_user_staking_balance(nodes, last.user_id)>>)
    /\ [][\A u \in Users :
             get_user_staking_balance(nodes', u)
                 = get_user_staking_balance(nodes, u) + Credit(u)]_vars

\* a user who staked an asset without a staking_amount and then transferred it
\* away is told a balance of 1
C25_Witness ==
    /\ last.op = "get_user_staking_balance" /\ last.message = <<1>>
    /\ \E i \in DOMAIN nodes :
          /\ nodes[i].action = "staking" /\ nodes[i].user_id = last.user_id
          /\ "staking_amount" \notin DOMAIN nodes[i].data
          /\ CurrentOwner(nodes, nodes[i].asset_id) # last.user_id

\* the assets with a stored node whose history ends with owner u
OwnedNow(u) ==
    {a \in Assets :
        /\ \E i \in DOMAIN nodes : nodes[i].asset_id = a
        /\ get_asset_ownership_history(nodes, a) # <<>>
        /\ LET h == get_asset_ownership_history(nodes, a) IN h[Len(h)].user_id = u}

\* C26: get_user_assets(u) returns exactly the asset ids of the store whose
\* history ends with owner u, each once
C26_UserAssetsAreTheOwnedOnes ==
    /\ \A u \in Users : get_user_assets(nodes, u) = OwnedNow(u)
    /\ last.op = "get_user_assets" => last.message = <<OwnedNow(last.user_id)>>

\* a user who owns one asset and has given another away is told the first one only
C26_Witness ==
    /\ last.op = "get_user_assets"
    /\ \E a, b \in Assets :
          /\ a # b
          /\ last.message = <<{a}>>
          /\ \E i \in DOMAIN nodes :
                nodes[i].asset_id = b /\ nodes[i].action = "register"
                /\ nodes[i].user_id = last.user_id
          /\ \E i \in DOMAIN nodes :
                nodes[i].asset_id = b /\ nodes[i].action = "transfer"

\* C27: verify_asset_ownership returns a boolean for every input: True when the
\* asset's history is non-empty and ends with the user, False otherwise, an asset
\* that was never registered included
C27_OwnershipCheckIsBoolean ==
    last.op = "verify_asset_ownership" =>
        LET h == get_asset_ownership_history(nodes, last.asset_id)
        IN  last.message =
                <<IF h # <<>> /\ h[Len(h)].user_id = last.user_id THEN "True" ELSE "False">>

\* the faults of candidate n against store ns, one per check of _validate_node
DuplicateId(ns, n) == HasNode(ns, n.node_id)
DanglingReference(ns, n) == \E r \in Range(n.references) : ~HasNode(ns, r)
TooManyReferences(n) == Len(n.references) > 2
Unregistered(ns, n) == get_asset_ownership_history(ns, n.asset_id) = <<>>
NotOwner(ns, n) ==
    LET h == get_asset_ownership_history(ns, n.asset_id)
    IN  h # <<>> /\ h[Len(h)].user_id # n.user_id

\* C28: the reason of a rejection is that of the first failing check in the order
\* duplicate id, dangling reference, more than 2 references, action rule; and for
\* a transfer the action rules come in the order asset not registered, not the
\* current owner, no recipient_id
C28_FirstFailingCheckWins ==
    [][LET n == cand'
           reason == last'.message[1]
           generic == DuplicateId(nodes, n) \/ DanglingReference(nodes, n) \/ TooManyReferences(n)
       IN  /\ DuplicateId(nodes, n) => reason = "Node with ID already exists"
           /\ (~DuplicateId(nodes, n) /\ DanglingReference(nodes, n))
                 => reason = "Referenced node does not exist"
           /\ (~DuplicateId(nodes, n) /\ ~DanglingReference(nodes, n) /\ TooManyReferences(n))
                 => reason = "A node cannot have more than 2 references"
           /\ (~generic /\ n.action = "transfer" /\ Unregistered(nodes, n))
                 => reason = "Asset is not registered"
           /\ (~generic /\ n.action = "transfer" /\ NotOwner(nodes, n))
                 => reason = "Transfer requested by, but asset is owned by"
           /\ (~generic /\ n.action = "transfer" /\ ~Unregistered(nodes, n) /\ ~NotOwner(nodes, n)
                 /\ "recipient_id" \notin DOMAIN n.data)
                 => reason = "Transfer must include a recipient_id in the data"]_vars

\* a transfer without recipient_id, by a user who does not own the asset, with
\* three references to no stored node, has been rejected for the reference
C28_Witness ==
    /\ nodes # <<>>
    /\ cand.action = "transfer" /\ "recipient_id" \notin DOMAIN cand.data
    /\ NotOwner(nodes, cand)
    /\ TooManyReferences(cand) /\ DanglingReference(nodes, cand)
    /\ ~last.ok /\ last.message[1] = "Referenced node does not exist"

\* C29: choose_references returns ids of current tips without repetition, exactly
\* 2 of them when there are 2 or more tips and all the tips (0 or 1) otherwise, and
\* leaves nodes and tips as they were
C29_ChosenReferencesAreTips ==
    /\ [](last.op = "choose_references" =>
            /\ Range(last.message) \subseteq tips
            /\ Cardinality(Range(last.message)) = Len(last.message)
            /\ Cardinality(tips) >= 2 => Len(last.message) = 2
            /\ Cardinality(tips) < 2 => Range(last.message) = tips)
    /\ [][(last'.op = "choose_references" /\ last' # last) =>
             nodes' = nodes /\ tips' = tips]_vars

\* two of three tips have been chosen
C29_Witness ==
    /\ Cardinality(tips) = 3
    /\ last.op = "choose_references" /\ Len(last.message) = 2

\* the position in the store of the node with this id
PositionOf(id) == CHOOSE i \in DOMAIN nodes : nodes[i].node_id = id

\* the positions of the nodes of asset a that make an entry: its register nodes
\* and its transfer nodes with a recipient_id
EntryPositions(a) ==
    {i \in DOMAIN nodes :
        /\ nodes[i].asset_id = a
        /\ \/ nodes[i].action = "register"
           \/ nodes[i].action = "transfer" /\ "recipient_id" \in DOMAIN nodes[i].data}

\* h is the history of asset a
IsHistoryOf(h, a) ==
    /\ Len(h) = Cardinality(EntryPositions(a))
    /\ {h[k].node_id : k \in DOMAIN h} = {nodes[i].node_id : i \in EntryPositions(a)}
    /\ \A k \in DOMAIN h :
          LET n == nodes[PositionOf(h[k].node_id)]
          IN  /\ h[k].action = n.action
              /\ h[k].timestamp = n.timestamp
              /\ h[k].user_id = IF n.action = "register" THEN n.user_id
                                ELSE n.data["recipient_id"]
    /\ \A k, l \in DOMAIN h :
          k < l => \/ h[k].timestamp < h[l].timestamp
                   \/ /\ h[k].timestamp = h[l].timestamp
                      /\ PositionOf(h[k].node_id) < PositionOf(h[l].node_id)

\* C30: get_asset_ownership_history(a) has one entry per register node of a (owner:
\* its user_id) and one per transfer node of a with a recipient_id (owner: the
\* recipient), none for staking nodes, in ascending timestamp order with ties in
\* insertion order, and is empty when a has no nodes
C30_HistoryIsTheSortedReplay ==
    /\ \A a \in Assets : IsHistoryOf(get_asset_ownership_history(nodes, a), a)
    /\ last.op = "get_asset_ownership_history" => IsHistoryOf(last.message, last.asset_id)

\* a history of two entries with the same timestamp, for an asset that also has a
\* staking node, has been returned
C30_Witness ==
    /\ last.op = "get_asset_ownership_history"
    /\ Len(last.message) = 2
    /\ last.message[1].timestamp = last.message[2].timestamp
    /\ \E i \in DOMAIN nodes :
          nodes[i].asset_id = last.asset_id /\ nodes[i].action = "staking"

\* some stored node has a reference that is the key of no stored node
HasDangling(ns) == \E i \in DOMAIN ns : FirstMissingRef(ns, ns[i].references, 1) # 0

\* C31: verify_integrity finishes the reference pass before it starts the hash
\* pass: on a store with a dangling reference it reports the dangling reference,
\* also when some node, earlier or later, has a hash mismatch; and it changes
\* neither nodes, nor tips, nor the snapshot
C31_DanglingReferenceFirstNoRepair ==
    [][last'.op = "verify_integrity" =>
          /\ nodes' = nodes /\ tips' = tips /\ disk' = disk
          /\ HasDangling(nodes) =>
                /\ ~last'.ok
                /\ last'.message = <<"Node references non-existent node">> \o FirstDangling(nodes, 1)]_vars

\* verify_integrity has reported the dangling reference of the second node of a
\* store whose first node has an overwritten hash
C31_Witness ==
    /\ last.op = "verify_integrity"
    /\ Len(nodes) = 2
    /\ Altered(nodes) = {1}
    /\ FirstMissingRef(nodes, nodes[1].references, 1) = 0
    /\ FirstMissingRef(nodes, nodes[2].references, 1) # 0
    /\ last.message = <<"Node references non-existent node", nodes[2].node_id, 9>>

\* C35: after load every node's hash is the hash of its fields, whatever hash the
\* file carried for it, and verify_integrity on the loaded store does not report a
\* hash mismatch
C35_LoadedHashesAreRecomputed ==
    [][last'.op = "restart" =>
          /\ Altered(nodes') = {}
          /\ verify_integrity(nodes')[2][1] # "Hash mismatch for node"]_vars

\* a store loaded from a file in which the hash of one record had been replaced
\* and the references of another pointed to no node: the integrity check of the
\* loaded store fails, on the reference
C35_Witness ==
    /\ last.op = "restart"
    /\ \E i \in DOMAIN nodes : disk.nodes[i].hash = CorruptHash /\ nodes[i].hash # CorruptHash
    /\ HasDangling(nodes)
    /\ ~verify_integrity(nodes)[1]

\* C32: a successful admission extends the ownership history of the admitted
\* node's asset by one entry at the end when the node is a register or a transfer,
\* leaves it as it was when the node is a staking node, and leaves the history of
\* every other asset as it was
C32_HistoriesGrowAtTheEnd ==
    [][Len(nodes') > Len(nodes) =>
          \A a \in Assets :
              LET before == get_asset_ownership_history(nodes, a)
                  after == get_asset_ownership_history(nodes', a)
              IN  IF a # Added.asset_id \/ Added.action = "staking"
                  THEN after = before
                  ELSE /\ Len(after) = Len(before) + 1
                       /\ SubSeq(after, 1, Len(before)) = before]_vars

\* C33: driven through register_asset, transfer_asset and stake_asset only, the
\* store is a single chain: tips is empty before the first admission and then
\* holds exactly the id of the node admitted last, the first node has no
\* reference, and every later node references exactly the node admitted before it
C33_HelpersBuildAChain ==
    /\ Cardinality(tips) <= 1
    /\ nodes # <<>> => tips = {nodes[Len(nodes)].node_id}
    /\ \A i \in DOMAIN nodes :
          nodes[i].references = IF i = 1 THEN <<>> ELSE <<nodes[i - 1].node_id>>

\* a chain of three nodes admitted through the three helpers, one each
C33_Witness ==
    /\ Len(nodes) = 3
    /\ {nodes[i].action : i \in DOMAIN nodes} = Actions
    /\ last.op \in HelperOps /\ last.ok
    /\ tips = {nodes[3].node_id}

\* the users get_user_assets returns the asset for
OwnersByQuery(a) == {u \in Users : a \in get_user_assets(nodes, u)}

\* C34: in every state reached through the helpers, an asset with a register node
\* is returned by get_user_assets for exactly one user, and an asset without a
\* register node for no user
C34_OwnershipIsAPartition ==
    \A a \in Assets :
        Cardinality(OwnersByQuery(a)) = IF HasRegister(nodes, a) THEN 1 ELSE 0

\* one asset was registered by one user and transferred to the other, who is the
\* only user it is returned for; the other asset has no register node
C34_Witness ==
    \E a \in Assets, b \in Assets, u \in Users, v \in Users :
        /\ a # b /\ u # v
        /\ Len(get_asset_ownership_history(nodes, a)) = 2
        /\ get_asset_ownership_history(nodes, a)[1].user_id = u
        /\ OwnersByQuery(a) = {v}
        /\ ~HasRegister(nodes, b) /\ OwnersByQuery(b) = {}

\* the six queries
QueryOps ==
    {"get_asset_ownership_history", "get_user_assets", "get_user_staking_balance",
     "verify_asset_ownership", "get_tips", "choose_references"}

\* C36: get_asset_ownership_history, get_user_assets, get_user_staking_balance,
\* verify_asset_ownership, get_tips and choose_references leave nodes (contents
\* and iteration order), tips and the snapshot file as they were
C36_QueriesChangeNothing ==
    [][last'.op \in QueryOps => nodes' = nodes /\ tips' = tips /\ disk' = disk]_vars

\* the history of an asset was just returned, in timestamp order, from a store of
\* three nodes whose insertion order is not their timestamp order
C36_Witness ==
    /\ last.op = "get_asset_ownership_history"
    /\ Len(last.message) >= 2
    /\ Len(nodes) = 3
    /\ SortByTimestamp(nodes) # nodes
    /\ disk = Snapshot(nodes, tips)

\* C37: the staking balance of every user is never negative, and no step makes it
\* smaller than it was
C37_StakingBalanceNeverFalls ==
    /\ [](\A u \in Users : get_user_staking_balance(nodes, u) >= 0)
    /\ [][\A u \in Users :
             get_user_staking_balance(nodes', u) >= get_user_staking_balance(nodes, u)]_vars

\* C38: fed the same candidates from the empty store, the DAG of
\* inlock_blockchain.py and the DAG of blockchain_dag.py accept and reject the same
\* candidates, hold the same nodes in the same order and the same tips, and their
\* ownership history, user assets and staking balance queries return the same
C38_TwoDagClassesAgree ==
    /\ inlock.last.ok = last.ok
    /\ inlock.nodes = nodes
    /\ inlock.tips = tips
    /\ \A a \in Assets :
          inlock_get_asset_ownership_history(inlock.nodes, a)
              = get_asset_ownership_history(nodes, a)
    /\ \A u \in Users :
          /\ inlock_get_user_assets(inlock.nodes, u) = get_user_assets(nodes, u)
          /\ inlock_get_user_staking_balance(inlock.nodes, u) = get_user_staking_balance(nodes, u)

\* both classes hold a register, a transfer to another user and a stake of the new
\* owner, given in an order that is not their timestamp order
C38_Witness ==
    /\ Len(inlock.nodes) = 3 /\ Len(nodes) = 3
    /\ {nodes[i].action : i \in DOMAIN nodes} = Actions
    /\ SortByTimestamp(nodes) # nodes
    /\ \E u \in Users : get_user_staking_balance(nodes, u) # 0
    /\ \E a \in Assets : Len(inlock_get_asset_ownership_history(inlock.nodes, a)) = 2

\* ns2 is ns, or ns with one node appended
AtMostOneAdded(ns, ns2) ==
    ns2 = ns \/ (Len(ns2) = Len(ns) + 1 /\ SubSeq(ns2, 1, Len(ns)) = ns)

\* a call of process_nfc_tag that answered r took the store from (ns, tp, file) to
\* (ns2, tp2, file2) as the claim says
ScanAsClaimed(ns, tp, file, ns2, tp2, file2, r) ==
    LET tag_id == r.asset_id
        user_id == r.user_id
        new == ns2[Len(ns2)]
    IN  /\ AtMostOneAdded(ns, ns2)
        /\ ~r.ok => ns2 = ns /\ tp2 = tp /\ file2 = file
        /\ r.ok => Len(ns2) = Len(ns) + 1 /\ new.asset_id = tag_id /\ new.user_id = user_id
        /\ IF tag_id = NoVal \/ user_id = NoVal THEN ~r.ok
           ELSE IF ~HasRegister(ns, tag_id)
           THEN r.action = "register" /\ r.ok /\ new.action = "register"
           ELSE /\ r.action = "staking"
                /\ r.ok <=> CurrentOwner(ns, tag_id) = user_id
                /\ r.ok => new.action = "staking" /\ new.data = StakingData(1)
        /\ \A a \in Assets :
              CurrentOwner(ns, a) # NoVal => CurrentOwner(ns2, a) = CurrentOwner(ns, a)

\* C39: a call of process_nfc_tag (app.py and inlock_blockchain.py) adds at most
\* one node: it attempts a register of the tag for the user when the tag has no
\* register node, otherwise a stake of amount 1 by the user, which succeeds exactly
\* when the user is the tag's current owner and otherwise leaves the store as it
\* was; the owner an asset has is never changed by it
C39_ScanRegistersOrStakes ==
    [][last'.op = "process_nfc_tag" =>
          /\ ScanAsClaimed(nodes, tips, disk, nodes', tips', disk', last')
          /\ inlock'.last.op = "process_nfc_tag"
          /\ ScanAsClaimed(inlock.nodes, inlock.tips, inlock.disk,
                           inlock'.nodes, inlock'.tips, inlock'.disk, inlock'.last)]_vars

\* a tag registered by one user and transferred to the other was scanned by the
\* first user: both servers attempted a stake and refused it
C39_Witness ==
    /\ last.op = "process_nfc_tag" /\ last.action = "staking" /\ ~last.ok
    /\ inlock.last = last
    /\ Len(nodes) = 2 /\ inlock.nodes = nodes
    /\ nodes[2].action = "transfer"
    /\ last.user_id = nodes[1].user_id
    /\ CurrentOwner(nodes, last.asset_id) # last.user_id

\* a tag was scanned by its owner a second time: the scan was admitted as a stake of 1
C39_Staked ==
    /\ last.op = "process_nfc_tag" /\ last.action = "staking" /\ last.ok
    /\ get_user_staking_balance(nodes, last.user_id) = 1

====
